---- MODULE Spec2Model ----
(***************************************************************************)
(* Job-lifecycle protocol of the distributed task queue:                   *)
(*   api/main.py      submit_task, get_task_status                         *)
(*   worker/worker.py main (dequeue - dispatch - update loop)              *)
(* The durable store is the PostgreSQL relation "tasks", the work queue is *)
(* the Redis list "task_queue".                                            *)
(***************************************************************************)
EXTENDS Integers, Sequences, FiniteSets, TLC

\* ---------------------------------------------------------------- bounds
MaxJobs == 2
MaxDeliveries == 2
MaxMalformed == 1          \* number of POST /tasks requests ever made
NumWorkers == 2       \* number of worker processes on the same queue

Workers == 1..NumWorkers
JobIds == 1..MaxJobs

\* ------------------------------------------------------------ SQL values
NULL == <<>>
Some(x) == <<x>>

\* ------------------------------------------------- uuid (python stdlib)
\* A uuid value is written by the index of the uuid4() call that made it;
\* its 32 hexadecimal digits are UuidHex(i).
HexDigits == {"0", "1", "2", "3", "4", "5", "6", "7", "8", "9",
              "a", "b", "c", "d", "e", "f"}

DigitOf(i) == CASE i = 1 -> "1" [] i = 2 -> "2" [] i = 3 -> "3"
                [] i = 4 -> "5" [] OTHER -> "6"

\* uuid.uuid4(): random digits, version nibble 4, variant nibble 8..b
UuidHex(i) == [k \in 1..32 |-> IF k = 13 THEN "4"
                               ELSE IF k = 17 THEN "a" ELSE DigitOf(i)]

\* str(uuid): 8-4-4-4-12 groups separated by hyphens
UuidStr(h) == SubSeq(h, 1, 8) \o <<"-">> \o SubSeq(h, 9, 12) \o <<"-">>
              \o SubSeq(h, 13, 16) \o <<"-">> \o SubSeq(h, 17, 20)
              \o <<"-">> \o SubSeq(h, 21, 32)

\* hex.replace('-', '')
NotHyphen(c) == c # "-"

RemoveHyphens(s) == SelectSeq(s, NotHyphen)

\* uuid.UUID(hex): drop the hyphens, require 32 hexadecimal digits;
\* ValueError otherwise
UUIDValid(s) ==
    LET h == RemoveHyphens(s)
    IN  Len(h) = 32 /\ \A k \in 1..32 : h[k] \in HexDigits

UUIDParse(s) == RemoveHyphens(s)

\* ----------------------------------------------------- task registry
\* scan_url(url) and fetch_ip(hostname) are called as f(**params): the
\* call raises TypeError unless the keys of params are the parameters.
scan_url(params) ==
    [status_code |-> 200, title |-> "Example Domain", vulnerabilities_found |-> 0]

fetch_ip(params) ==
    [ip_address |-> "93.184.216.34", hostname |-> params.hostname]

TASK_REGISTRY == {"scan_url", "fetch_ip"}

Signature(task_name) ==
    IF task_name = "scan_url" THEN {"url"} ELSE {"hostname"}

HandlerRaises(task_name, params) == DOMAIN params # Signature(task_name)

HandlerResult(task_name, params) ==
    IF task_name = "scan_url" THEN scan_url(params) ELSE fetch_ip(params)

\* {"error": f"Task name '{task_name}' not found in registry."}
ErrorResult(task_name) ==
    [error |-> <<"Task name '", task_name, "' not found in registry.">>]

\* ------------------------------------------------------------ inputs
\* POST /tasks bodies: a call that succeeds for each handler, a call whose
\* params do not fit the handler (TypeError), and an unregistered name
Requests == {
    [task_name |-> "scan_url",     params |-> [url |-> "http://example.com"]],
    [task_name |-> "fetch_ip",     params |-> [hostname |-> "example.com"]],
    [task_name |-> "scan_url",     params |-> [hostname |-> "example.com"]],
    [task_name |-> "no_such_task", params |-> [url |-> "http://example.com"]] }

\* ------------------------------------------------------- envelope
\* json.dumps({"task_id":..., "task_name":..., "params":...})
json_dumps(task_id, task_name, params) ==
    <<"task_id", task_id, "task_name", task_name, "params", params>>

\* whether json.loads(job_json) and the three subscripts succeed: the text
\* is a JSON object with the keys task_id, task_name and params
JsonWellFormed(s) ==
    Len(s) = 6 /\ s[1] = "task_id" /\ s[3] = "task_name" /\ s[5] = "params"

\* json.loads(job_json) followed by the three subscripts
json_loads(s) ==
    [task_id |-> s[2], task_name |-> s[4], params |-> s[6]]

\* --------------------------------------------------- store statements
\* NOW() is strictly increasing, so every stamp of a column of a row is a
\* new value: the k-th value written there is written k.
NOW(prev) == IF prev = NULL THEN Some(1) ELSE Some(prev[1] + 1)

InsertLost(st, id, task_name) == st

\* INSERT INTO tasks (id, task_name, status) VALUES ($1, $2, 'PENDING')
InsertPending(st, id, task_name) ==
    [i \in DOMAIN st \cup {id} |->
        IF i = id
        THEN [task_name |-> task_name, status |-> "PENDING",
              started_at |-> NULL, completed_at |-> NULL, result |-> NULL]
        ELSE st[i]]

UpdateInProgressAll(st, id) ==
    [i \in DOMAIN st |->
        [st[i] EXCEPT !.status = "IN_PROGRESS", !.started_at = NOW(st[i].started_at)]]

UpdateInProgressIfPending(st, id) ==
    [i \in DOMAIN st |->
        IF i = id /\ st[i].status = "PENDING"
        THEN [st[i] EXCEPT !.status = "IN_PROGRESS", !.started_at = NOW(st[i].started_at)]
        ELSE st[i]]

\* UPDATE tasks SET status = 'IN_PROGRESS', started_at = NOW() WHERE id = %s
UpdateInProgress(st, id) ==
    [i \in DOMAIN st |->
        IF i = id
        THEN [st[i] EXCEPT !.status = "IN_PROGRESS", !.started_at = NOW(st[i].started_at)]
        ELSE st[i]]

UpdateCompletedLost(st, id, res) == st

UpdateCompletedNoResult(st, id, res) ==
    [i \in DOMAIN st |->
        IF i = id
        THEN [st[i] EXCEPT !.status = "COMPLETED",
                           !.completed_at = NOW(st[i].completed_at)]
        ELSE st[i]]

\* UPDATE tasks SET status = 'COMPLETED', completed_at = NOW(), result = %s
\*  WHERE id = %s
UpdateCompleted(st, id, res) ==
    [i \in DOMAIN st |->
        IF i = id
        THEN [st[i] EXCEPT !.status = "COMPLETED", !.completed_at = NOW(st[i].completed_at),
                           !.result = Some(res)]
        ELSE st[i]]

UpdateFailedDelete(st, id, res) == [i \in DOMAIN st \ {id} |-> st[i]]

\* UPDATE tasks SET status = 'FAILED', completed_at = NOW(), result = %s
\*  WHERE id = %s
UpdateFailed(st, id, res) ==
    [i \in DOMAIN st |->
        IF i = id
        THEN [st[i] EXCEPT !.status = "FAILED", !.completed_at = NOW(st[i].completed_at),
                           !.result = Some(res)]
        ELSE st[i]]

\* ------------------------------------------------------------- state
VARIABLES
    store,      \* committed rows of "tasks": uuid -> record
    queue,      \* Redis list "task_queue", head = left end
    req,        \* submit_task calls, by the uuid each generated
    wpc,        \* worker -> position in main()
    job_data,   \* worker -> envelope it holds (NULL or Some)
    result,     \* worker -> value returned by the handler (NULL or Some)
    pushed,     \* uuids whose envelope lpush put on the queue
    invoked,    \* uuids for which a registered handler was called
    log,        \* the worker's "Job ... completed / failed" lines
    resp,       \* the last answer of GET /tasks/{task_id}, or the last
                \* rejection of a POST /tasks body (NULL or Some)
    dequeued    \* task_ids in the order brpop handed them to a worker

vars == <<store, queue, req, wpc, job_data, result, pushed, invoked, log, resp, dequeued>>

Init ==
    /\ store = <<>>
    /\ queue = <<>>
    /\ req = <<>>
    /\ wpc = [w \in Workers |-> "brpop"]
    /\ job_data = [w \in Workers |-> NULL]
    /\ result = [w \in Workers |-> NULL]
    /\ pushed = {}
    /\ invoked = {}
    /\ log = {}
    /\ resp = NULL
    /\ dequeued = <<>>

\* --------------------------------------------------------- submit_task
\* uuid4(), json.dumps, db.acquire(), BEGIN, INSERT (row not yet committed)
SubmitInsert(task_name, params) ==
    /\ Len(req) < MaxJobs
    /\ req' = Append(req, [task_name |-> task_name, params |-> params,
                           pc |-> "inserted"])
    /\ UNCHANGED <<store, queue, wpc, job_data, result, pushed, invoked, log, resp, dequeued>>

\* the store is unreachable at acquire/BEGIN/INSERT: the request fails
SubmitInsertFail(task_name, params) ==
    /\ Len(req) < MaxJobs
    /\ req' = Append(req, [task_name |-> task_name, params |-> params,
                           pc |-> "failed"])
    /\ UNCHANGED <<store, queue, wpc, job_data, result, pushed, invoked, log, resp, dequeued>>

\* await redis.lpush("task_queue", job_payload), inside the transaction
SubmitPush(j) ==
    /\ j \in DOMAIN req
    /\ req[j].pc = "inserted"
    /\ queue' = <<json_dumps(j, req[j].task_name, req[j].params)>> \o queue
    /\ pushed' = pushed \cup {j}
    /\ req' = [req EXCEPT ![j].pc = "pushed"]
    /\ UNCHANGED <<store, wpc, job_data, result, invoked, log, resp, dequeued>>

\* lpush raises: the transaction block rolls the INSERT back
SubmitPushFail(j) ==
    /\ j \in DOMAIN req
    /\ req[j].pc = "inserted"
    /\ req' = [req EXCEPT ![j].pc = "failed"]
    /\ UNCHANGED <<store, queue, wpc, job_data, result, pushed, invoked, log, resp, dequeued>>

\* leaving "async with conn.transaction()": COMMIT
SubmitCommit(j) ==
    /\ j \in DOMAIN req
    /\ req[j].pc = "pushed"
    /\ store' = InsertPending(store, j, req[j].task_name)
    /\ req' = [req EXCEPT ![j].pc = "committed"]
    /\ UNCHANGED <<queue, wpc, job_data, result, pushed, invoked, log, resp, dequeued>>

\* COMMIT fails (store unreachable): the row is gone, the envelope stays
SubmitCommitFail(j) ==
    /\ j \in DOMAIN req
    /\ req[j].pc = "pushed"
    /\ req' = [req EXCEPT ![j].pc = "failed"]
    /\ UNCHANGED <<store, queue, wpc, job_data, result, pushed, invoked, log, resp, dequeued>>

\* return TaskCreationResponse(task_id=task_id)
SubmitReturn(j) ==
    /\ j \in DOMAIN req
    /\ req[j].pc = "committed"
    /\ req' = [req EXCEPT ![j].pc = "returned"]
    /\ UNCHANGED <<store, queue, wpc, job_data, result, pushed, invoked, log, resp, dequeued>>

\* ------------------------------------------------------ worker main()
Envelope(w) == job_data[w][1]

\* back to the top of "while True": job_data and result of the iteration
\* that ended are never read again
NextIteration(w) ==
    /\ wpc' = [wpc EXCEPT ![w] = "brpop"]
    /\ job_data' = [job_data EXCEPT ![w] = NULL]
    /\ result' = [result EXCEPT ![w] = NULL]

BrpopLeft(w) ==
    /\ wpc[w] = "brpop"
    /\ queue # <<>>
    /\ queue' = Tail(queue)
    /\ job_data' = [job_data EXCEPT ![w] = Some(json_loads(Head(queue)))]
    /\ dequeued' = Append(dequeued, json_loads(Head(queue)).task_id)
    /\ wpc' = [wpc EXCEPT ![w] = "mark"]
    /\ UNCHANGED <<store, req, result, pushed, invoked, log, resp>>

BrpopPeek(w) ==
    /\ wpc[w] = "brpop"
    /\ queue # <<>>
    /\ job_data' = [job_data EXCEPT ![w] = Some(json_loads(queue[Len(queue)]))]
    /\ dequeued' = Append(dequeued, json_loads(queue[Len(queue)]).task_id)
    /\ wpc' = [wpc EXCEPT ![w] = "mark"]
    /\ UNCHANGED <<store, queue, req, result, pushed, invoked, log, resp>>

\* _, job_json = redis_client.brpop("task_queue"); json.loads; subscripts.
\* brpop blocks while the list is empty and takes the right-most element.
Brpop(w) ==
    /\ wpc[w] = "brpop"
    /\ queue # <<>>
    /\ queue' = SubSeq(queue, 1, Len(queue) - 1)
    /\ IF JsonWellFormed(queue[Len(queue)])
       THEN /\ job_data' = [job_data EXCEPT
                               ![w] = Some(json_loads(queue[Len(queue)]))]
            /\ dequeued' = Append(dequeued, json_loads(queue[Len(queue)]).task_id)
            /\ wpc' = [wpc EXCEPT ![w] = "mark"]
       ELSE \* json.loads raises: caught by "except Exception"
            /\ wpc' = [wpc EXCEPT ![w] = "except_other"]
            /\ UNCHANGED <<job_data, dequeued>>
    /\ UNCHANGED <<store, req, result, pushed, invoked, log, resp>>

\* brpop raises redis.exceptions.RedisError: nothing was dequeued
BrpopFail(w) ==
    /\ wpc[w] = "brpop"
    /\ wpc' = [wpc EXCEPT ![w] = "except_redis"]
    /\ UNCHANGED <<store, queue, req, job_data, result, pushed, invoked, log, resp, dequeued>>

\* the UPDATE ... 'IN_PROGRESS' statement (autocommit)
MarkInProgress(w) ==
    /\ wpc[w] = "mark"
    /\ store' = UpdateInProgress(store, Envelope(w).task_id)
    /\ wpc' = [wpc EXCEPT ![w] = "dispatch"]
    /\ UNCHANGED <<queue, req, job_data, result, pushed, invoked, log, resp, dequeued>>

\* a store statement of the loop body raises psycopg2.Error
StoreFail(w) ==
    /\ \/ wpc[w] \in {"mark", "complete"}
       \/ wpc[w] = "dispatch" /\ Envelope(w).task_name \notin TASK_REGISTRY
    /\ wpc' = [wpc EXCEPT ![w] = "except_db"]
    /\ UNCHANGED <<store, queue, req, job_data, result, pushed, invoked, log, resp, dequeued>>

\* task_function = TASK_REGISTRY.get(task_name); result = task_function(**params)
RunHandler(w) ==
    /\ wpc[w] = "dispatch"
    /\ Envelope(w).task_name \in TASK_REGISTRY
    /\ invoked' = invoked \cup {Envelope(w).task_id}
    /\ IF HandlerRaises(Envelope(w).task_name, Envelope(w).params)
       THEN /\ wpc' = [wpc EXCEPT ![w] = "except_other"]
            /\ UNCHANGED result
       ELSE /\ result' = [result EXCEPT ![w] =
                  Some(HandlerResult(Envelope(w).task_name, Envelope(w).params))]
            /\ wpc' = [wpc EXCEPT ![w] = "complete"]
    /\ UNCHANGED <<store, queue, req, job_data, pushed, log, resp, dequeued>>

\* the UPDATE ... 'COMPLETED' statement and the "completed successfully" line
MarkCompleted(w) ==
    /\ wpc[w] = "complete"
    /\ store' = UpdateCompleted(store, Envelope(w).task_id, result[w][1])
    /\ log' = log \cup {<<Envelope(w).task_id, "completed successfully">>}
    /\ NextIteration(w)
    /\ UNCHANGED <<queue, req, pushed, invoked, resp, dequeued>>

MarkFailedEarly(w) ==
    /\ wpc[w] \in {"mark", "dispatch"}
    /\ Envelope(w).task_name \notin TASK_REGISTRY
    /\ store' = UpdateFailed(store, Envelope(w).task_id,
                             ErrorResult(Envelope(w).task_name))
    /\ log' = log \cup {<<Envelope(w).task_id, "failed: task not found">>}
    /\ NextIteration(w)
    /\ UNCHANGED <<queue, req, pushed, invoked, resp, dequeued>>

\* else-branch: the UPDATE ... 'FAILED' statement and the "task not found" line
MarkFailed(w) ==
    /\ wpc[w] = "dispatch"
    /\ Envelope(w).task_name \notin TASK_REGISTRY
    /\ store' = UpdateFailed(store, Envelope(w).task_id,
                             ErrorResult(Envelope(w).task_name))
    /\ log' = log \cup {<<Envelope(w).task_id, "failed: task not found">>}
    /\ NextIteration(w)
    /\ UNCHANGED <<queue, req, pushed, invoked, resp, dequeued>>

ReconnectRequeue(w) ==
    /\ wpc[w] = "except_db"
    /\ queue' = Append(queue, json_dumps(Envelope(w).task_id, Envelope(w).task_name,
                                        Envelope(w).params))
    /\ NextIteration(w)
    /\ UNCHANGED <<store, req, pushed, invoked, log, resp, dequeued>>

\* except psycopg2.Error: db_conn = get_db_connection(), which returns once
\* psycopg2.connect succeeds; the loop then starts its next iteration
Reconnect(w) ==
    /\ wpc[w] = "except_db"
    /\ NextIteration(w)
    /\ UNCHANGED <<store, queue, req, pushed, invoked, log, resp, dequeued>>

SleepDoneCrash(w) ==
    /\ wpc[w] \in {"except_redis", "except_other"}
    /\ wpc' = [wpc EXCEPT ![w] = "exited"]
    /\ UNCHANGED <<store, queue, req, job_data, result, pushed, invoked, log, resp,
                   dequeued>>

\* except RedisError / except Exception: time.sleep(5), next iteration
SleepDone(w) ==
    /\ wpc[w] \in {"except_redis", "except_other"}
    /\ NextIteration(w)
    /\ UNCHANGED <<store, queue, req, pushed, invoked, log, resp, dequeued>>

\* ------------------------------------------------------- redelivery
\* how many times the envelope of j was put on "task_queue" so far
Deliveries(j) ==
    Cardinality({k \in DOMAIN queue : JsonWellFormed(queue[k])
                                        /\ json_loads(queue[k]).task_id = j})
    + Cardinality({k \in DOMAIN dequeued : dequeued[k] = j})

\* the queue holds the envelope of j once more (a queue with at-least-once
\* delivery, or a client that pushes the same text again); brpop then
\* hands it to a worker as it does any other item
Redeliver(j) ==
    /\ j \in pushed
    /\ Deliveries(j) < MaxDeliveries
    /\ queue' = <<json_dumps(j, req[j].task_name, req[j].params)>> \o queue
    /\ UNCHANGED <<store, req, wpc, job_data, result, pushed, invoked, log, resp,
                   dequeued>>

\* ------------------------------------------------ malformed envelope
\* a text on "task_queue" that json.loads or the three subscripts reject
Malformed == <<"not json">>

\* brpop's input is whatever is on the list: a client pushed such a text
InjectMalformed ==
    /\ Cardinality({k \in DOMAIN queue : ~JsonWellFormed(queue[k])}) < MaxMalformed
    /\ queue' = <<Malformed>> \o queue
    /\ UNCHANGED <<store, req, wpc, job_data, result, pushed, invoked, log, resp,
                   dequeued>>

\* ------------------------------------------- POST /tasks: TaskRequest
\* A JSON value of a request body is written with its JSON type; a field
\* the body does not have is NULL.
JString(x) == Some([type |-> "string", str |-> x])
JNumber(x) == Some([type |-> "number", str |-> x])
JArray == Some([type |-> "array", str |-> ""])
JObject(x) == Some([type |-> "object", str |-> "", obj |-> x])

Bodies == <<
    [task_name |-> JString("scan_url"),
     params |-> JObject([url |-> "http://example.com"])],
    [task_name |-> JString(""),
     params |-> JObject([url |-> "http://example.com"])],
    [task_name |-> JNumber("7"),
     params |-> JObject([url |-> "http://example.com"])],
    [task_name |-> NULL,
     params |-> JObject([url |-> "http://example.com"])],
    [task_name |-> JArray,
     params |-> JObject([url |-> "http://example.com"])],
    [task_name |-> JString("fetch_ip"), params |-> JArray],
    [task_name |-> JString("fetch_ip"), params |-> NULL] >>

\* class TaskRequest(BaseModel): task_name: str; params: dict[str, Any].
\* Both fields are required; a str field takes a JSON string of any
\* length, and a JSON number as its decimal text; params takes an object.
TaskRequestValid(body) ==
    /\ body.task_name # NULL
    /\ body.task_name[1].type \in {"string", "number"}
    /\ body.params # NULL
    /\ body.params[1].type = "object"

\* POST /tasks with body Bodies[b]: a body that does not validate is
\* answered 422 before submit_task runs
PostTasks(b) ==
    IF TaskRequestValid(Bodies[b])
    THEN SubmitInsert(Bodies[b].task_name[1].str, Bodies[b].params[1].obj)
    ELSE /\ resp' = Some([q |-> 0, answer |-> [status_code |-> 422,
                                               store_read |-> FALSE]])
         /\ UNCHANGED <<store, queue, req, wpc, job_data, result, pushed,
                        invoked, log, dequeued>>

\* ----------------------------------------------------- get_task_status
\* path parameters tried: the str() of the first uuid, the same uuid
\* without hyphens, the str() of the second uuid, the str() of a uuid that
\* no uuid4() call returns, "not-a-uuid", and a 36-character string with a
\* letter that is no hexadecimal digit
NotAUuid == <<"n", "o", "t", "-", "a", "-", "u", "u", "i", "d">>

QueryIds ==
    << UuidStr(UuidHex(1)), UuidHex(1), UuidStr(UuidHex(2)),
       UuidStr(UuidHex(MaxJobs + 1)), NotAUuid,
       [UuidStr(UuidHex(1)) EXCEPT ![1] = "g"] >>

\* conn.fetchrow("SELECT * FROM tasks WHERE id = $1", task_id)
fetchrow(st, task_id) ==
    LET rows == {i \in DOMAIN st : UuidHex(i) = UUIDParse(task_id)}
    IN  IF rows = {} THEN NULL ELSE Some(st[CHOOSE i \in rows : TRUE])

TaskStatusUnvalidated(st, task_id) ==
    IF fetchrow(st, task_id) = NULL
    THEN [status_code |-> 404, store_read |-> TRUE]
    ELSE [status_code |-> 200, store_read |-> TRUE]

TaskStatusAlwaysFound(st, task_id) ==
    IF ~UUIDValid(task_id)
    THEN [status_code |-> 400, store_read |-> FALSE]
    ELSE [status_code |-> 200, store_read |-> TRUE]

\* the answer of get_task_status: 400 on ValueError of uuid.UUID(task_id),
\* before the pool is touched; else 404 if fetchrow finds no row, else 200
TaskStatus(st, task_id) ==
    IF ~UUIDValid(task_id)
    THEN [status_code |-> 400, store_read |-> FALSE]
    ELSE IF fetchrow(st, task_id) = NULL
         THEN [status_code |-> 404, store_read |-> TRUE]
         ELSE [status_code |-> 200, store_read |-> TRUE]

\* GET /tasks/{task_id} with task_id = QueryIds[q]
get_task_status(q) ==
    /\ resp' = Some([q |-> q, answer |-> TaskStatus(store, QueryIds[q])])
    /\ UNCHANGED <<store, queue, req, wpc, job_data, result, pushed, invoked, log,
                   dequeued>>

\* ----------------------------------------------------- specifications
SubmitStep ==
    \/ \E r \in Requests : SubmitInsert(r.task_name, r.params)
    \/ \E j \in JobIds : SubmitPush(j)
    \/ \E j \in JobIds : SubmitCommit(j)
    \/ \E j \in JobIds : SubmitReturn(j)

WorkerStep(w) ==
    \/ Brpop(w)
    \/ MarkInProgress(w)
    \/ RunHandler(w)
    \/ MarkCompleted(w)
    \/ MarkFailed(w)
    \/ SleepDone(w)

\* the loop body when nothing raises
CleanWorkerStep(w) ==
    \/ Brpop(w)
    \/ MarkInProgress(w)
    \/ RunHandler(w)
    \/ MarkCompleted(w)
    \/ MarkFailed(w)

\* POST /tasks with any body, the accepted requests and the workers
NextValidate ==
    \/ \E b \in DOMAIN Bodies : PostTasks(b)
    \/ \E j \in JobIds : SubmitPush(j)
    \/ \E j \in JobIds : SubmitCommit(j)
    \/ \E j \in JobIds : SubmitReturn(j)
    \/ \E w \in Workers : CleanWorkerStep(w)

SpecValidate == Init /\ [][NextValidate]_vars

\* store or queue unreachable at one step of submit_task
SubmitFailure ==
    \/ \E r \in Requests : SubmitInsertFail(r.task_name, r.params)
    \/ \E j \in JobIds : SubmitPushFail(j)
    \/ \E j \in JobIds : SubmitCommitFail(j)

\* store or queue unreachable at one step of the worker loop
WorkerFailure ==
    \/ \E w \in Workers : BrpopFail(w)
    \/ \E w \in Workers : StoreFail(w)
    \/ \E w \in Workers : Reconnect(w)

Next ==
    \/ SubmitStep
    \/ \E w \in Workers : WorkerStep(w)
    \/ SubmitFailure
    \/ WorkerFailure

Spec == Init /\ [][Next]_vars

\* submissions and workers with store and queue reachable, on a queue that
\* may deliver an envelope again
NextRedeliver ==
    \/ SubmitStep
    \/ \E w \in Workers : WorkerStep(w)
    \/ \E j \in JobIds : Redeliver(j)

SpecRedeliver == Init /\ [][NextRedeliver]_vars

\* one worker, store and queue reachable
NextSingle ==
    \/ SubmitStep
    \/ WorkerStep(1)

SpecSingle == Init /\ [][NextSingle]_vars

\* the requests whose handler, if there is one, returns
RequestsOK ==
    {r \in Requests :
        r.task_name \in TASK_REGISTRY => ~HandlerRaises(r.task_name, r.params)}

\* fewer worker processes than jobs
ActiveWorkers == 1..(NumWorkers - 1)

\* store and queue reachable, no handler raises
NextClean ==
    \/ \E r \in RequestsOK : SubmitInsert(r.task_name, r.params)
    \/ \E j \in JobIds : SubmitPush(j)
    \/ \E j \in JobIds : SubmitCommit(j)
    \/ \E j \in JobIds : SubmitReturn(j)
    \/ \E w \in ActiveWorkers : CleanWorkerStep(w)

SpecClean == Init /\ [][NextClean]_vars

\* submissions (failing or not), workers and status queries
NextQuery ==
    \/ SubmitStep
    \/ \E w \in Workers : WorkerStep(w)
    \/ SubmitFailure
    \/ \E q \in DOMAIN QueryIds : get_task_status(q)

SpecQuery == Init /\ [][NextQuery]_vars

\* store and queue stay reachable; every worker keeps running, and a
\* request that was accepted runs to its response
NextReliable ==
    \/ SubmitStep
    \/ \E w \in Workers : WorkerStep(w)

FairSpec ==
    /\ Init
    /\ [][NextReliable]_vars
    /\ \A w \in Workers : WF_vars(WorkerStep(w))
    /\ \A j \in JobIds :
          WF_vars(SubmitPush(j) \/ SubmitCommit(j) \/ SubmitReturn(j))

\* every error of the loop body can happen: store and queue failures, a
\* raising handler, a malformed envelope
NextFaulty ==
    \/ SubmitStep
    \/ \E w \in Workers : WorkerStep(w)
    \/ WorkerFailure
    \/ InjectMalformed

\* the worker process keeps running: a statement that can run does run, a
\* sleep ends, and get_db_connection returns (the store comes back)
FairSpecFaulty ==
    /\ Init
    /\ [][NextFaulty]_vars
    /\ \A w \in Workers : WF_vars(WorkerStep(w) \/ Reconnect(w))

\* ------------------------------------------------------------ properties
Terminal == {"COMPLETED", "FAILED"}

Rank(status) ==
    CASE status = "PENDING" -> 0
      [] status = "IN_PROGRESS" -> 1
      [] OTHER -> 2

Submitted(j) == j \in DOMAIN req /\ req[j].pc \in {"committed", "returned"}

InQueue(j) == \E k \in DOMAIN queue : json_loads(queue[k]).task_id = j

\* C1: the status of a record never moves backward along
\* PENDING -> IN_PROGRESS -> {COMPLETED, FAILED}, and a record that is
\* COMPLETED or FAILED keeps that status in every later step.
C1_StatusMonotonic ==
    [][\A id \in DOMAIN store :
          /\ id \in DOMAIN store'
          /\ Rank(store'[id].status) >= Rank(store[id].status)
          /\ store[id].status \in Terminal
                => store'[id].status = store[id].status]_vars

\* two workers have each taken one record to a different terminal status
C1_Witness ==
    \E a, b \in DOMAIN store :
        store[a].status = "COMPLETED" /\ store[b].status = "FAILED"

\* C2: every job whose submission succeeded eventually has a terminal
\* status, while the workers keep running.
C2_EventuallyTerminal ==
    \A j \in JobIds :
        Submitted(j) ~> (j \in DOMAIN store /\ store[j].status \in Terminal)

\* C3: once a submit call is over (response or error), the record of its id
\* exists if and only if its envelope was pushed.
C3_SubmitAllOrNothing ==
    \A j \in DOMAIN req :
        req[j].pc \in {"returned", "failed"}
            => ((j \in DOMAIN store) <=> (j \in pushed))

\* C4 as stated: at the step that returns the id, the record of that id
\* exists with status PENDING.
C4_PendingAtReturn ==
    [][\A j \in DOMAIN req :
          (req[j].pc = "committed" /\ req'[j].pc = "returned")
              => (j \in DOMAIN store' /\ store'[j].status = "PENDING")]_vars

\* C4 as amended: at the step that returns the id, the record of that id
\* exists, and its status is PENDING unless a worker has already taken its
\* envelope off the queue.
C4_RecordAtReturn ==
    [][\A j \in DOMAIN req :
          (req[j].pc = "committed" /\ req'[j].pc = "returned")
              => /\ j \in DOMAIN store'
                 /\ (store'[j].status = "PENDING" \/ ~InQueue(j))]_vars

\* a submit has returned while a worker had already moved its record on
C4_Witness ==
    \E j \in DOMAIN req :
        /\ req[j].pc = "returned"
        /\ j \in DOMAIN store
        /\ store[j].status = "IN_PROGRESS"

\* C5: when the worker leaves the handler of an unexpected error raised by
\* a task function, the record of the job it held is FAILED with a result.
C5_HandlerErrorMarksFailed ==
    [][\A w \in Workers :
          (wpc[w] = "except_other" /\ wpc'[w] = "brpop")
              => LET id == Envelope(w).task_id
                 IN  id \in DOMAIN store'
                        => /\ store'[id].status = "FAILED"
                           /\ store'[id].result # NULL]_vars

\* C6: a job whose task_name is not registered, once a worker has run its
\* FAILED update and the submission has succeeded, is FAILED with a result
\* naming the task_name, and no handler was called for it.
C6_UnregisteredFails ==
    \A j \in DOMAIN req :
        (Submitted(j) /\ <<j, "failed: task not found">> \in log)
            => /\ store[j].status = "FAILED"
               /\ store[j].result = Some(ErrorResult(req[j].task_name))
               /\ j \notin invoked

\* C7: a submitted job with a registered task_name whose handler returns
\* eventually is COMPLETED with the handler's return value as result.
C7_EventuallyCompleted ==
    \A j \in JobIds :
        (/\ Submitted(j)
         /\ req[j].task_name \in TASK_REGISTRY
         /\ ~HandlerRaises(req[j].task_name, req[j].params))
        ~> (/\ j \in DOMAIN store
            /\ store[j].status = "COMPLETED"
            /\ store[j].result =
                 Some(HandlerResult(req[j].task_name, req[j].params)))

\* C8: in every state, the result of a record is set if and only if its
\* status is COMPLETED or FAILED.
C8_ResultIffTerminal ==
    \A id \in DOMAIN store :
        (store[id].result # NULL) <=> (store[id].status \in Terminal)

\* a record with a result and a record without one
C8_Witness ==
    \E a, b \in DOMAIN store :
        /\ store[a].status = "COMPLETED" /\ store[a].result # NULL
        /\ store[b].status = "IN_PROGRESS" /\ store[b].result = NULL

\* C9: a query whose id is no valid uuid is answered 400 without reading
\* the store, and leaves the store as it was.
C9_InvalidIdNoStoreAccess ==
    [][\A q \in DOMAIN QueryIds :
          (resp' # resp /\ resp'[1].q = q /\ ~UUIDValid(QueryIds[q]))
              => /\ resp'[1].answer.status_code = 400
                 /\ ~resp'[1].answer.store_read
                 /\ store' = store]_vars

\* "not-a-uuid" was queried while the store held a record
C9_Witness ==
    /\ resp # NULL
    /\ QueryIds[resp[1].q] = NotAUuid
    /\ resp[1].answer.status_code = 400
    /\ store # <<>>

\* the uuid values of the submit calls that committed their record
CreatedUuids == {UuidHex(j) : j \in {i \in DOMAIN req : Submitted(i)}}

\* C10: a query whose id is a valid uuid for which no submit created a
\* record is answered 404, and leaves the store and the queue as they were.
C10_UnknownIdNotFound ==
    [][\A q \in DOMAIN QueryIds :
          (/\ resp' # resp
           /\ resp'[1].q = q
           /\ UUIDValid(QueryIds[q])
           /\ UUIDParse(QueryIds[q]) \notin CreatedUuids)
              => /\ resp'[1].answer.status_code = 404
                 /\ store' = store
                 /\ queue' = queue]_vars

\* a never-created uuid was queried while the store held another record
C10_Witness ==
    /\ resp # NULL
    /\ QueryIds[resp[1].q] = UuidStr(UuidHex(MaxJobs + 1))
    /\ resp[1].answer.status_code = 404
    /\ store # <<>>

\* C11: no record and no envelope ever carries an empty task_name: a body
\* whose task_name is the empty string is rejected before any side effect.
C11_EmptyNameRejected ==
    /\ \A id \in DOMAIN store : store[id].task_name # ""
    /\ \A k \in DOMAIN queue : json_loads(queue[k]).task_name # ""

Commits(j) == j \in DOMAIN req /\ req[j].pc = "pushed" /\ req'[j].pc = "committed"

\* C12: the records are exactly those of the submit calls that committed,
\* one each; a commit adds one PENDING record under an id the store did
\* not hold, and no other step adds or removes a record.
C12_OneRecordPerId ==
    /\ [](DOMAIN store = {j \in DOMAIN req : Submitted(j)})
    /\ [][/\ DOMAIN store \subseteq DOMAIN store'
          /\ \A j \in JobIds :
                Commits(j) => /\ j \notin DOMAIN store
                              /\ DOMAIN store' = DOMAIN store \cup {j}
                              /\ store'[j].status = "PENDING"
          /\ (\A j \in JobIds : ~Commits(j)) => DOMAIN store' = DOMAIN store
         ]_vars

\* both submits created their record and a worker has failed one of them
C12_Witness ==
    /\ Cardinality(DOMAIN store) = 2
    /\ \E id \in DOMAIN store : store[id].status = "FAILED"

Holds(w, id) == job_data[w] # NULL /\ Envelope(w).task_id = id

\* C13: no envelope is handed to a worker twice and no two workers hold
\* the same envelope; every record that left PENDING has an envelope that
\* was dequeued once; a handler is called at most once for a job.
C13_DeliveredOnce ==
    /\ [](/\ \A k1, k2 \in DOMAIN dequeued :
                k1 # k2 => dequeued[k1] # dequeued[k2]
          /\ \A id \in DOMAIN store :
                store[id].status # "PENDING"
                    => \E k \in DOMAIN dequeued : dequeued[k] = id
          /\ \A w1, w2 \in Workers, id \in JobIds :
                (Holds(w1, id) /\ Holds(w2, id)) => w1 = w2)
    /\ [][\A w \in Workers :
             (wpc[w] = "dispatch" /\ wpc'[w] \in {"complete", "except_other"})
                 => Envelope(w).task_id \notin invoked]_vars

\* two workers run the handlers of two different jobs at the same time
C13_Witness ==
    \E w1, w2 \in Workers :
        /\ w1 # w2
        /\ wpc[w1] = "complete" /\ wpc[w2] = "complete"
        /\ Envelope(w1).task_id # Envelope(w2).task_id
        /\ Envelope(w1).task_id \in DOMAIN store
        /\ Envelope(w2).task_id \in DOMAIN store
        /\ store[Envelope(w1).task_id].status = "IN_PROGRESS"
        /\ store[Envelope(w2).task_id].status = "IN_PROGRESS"

\* the worker statement that writes a column of record id in this step
WritesStarted(id) ==
    id \in DOMAIN store /\ store'[id].started_at # store[id].started_at
WritesCompleted(id) ==
    id \in DOMAIN store /\ store'[id].completed_at # store[id].completed_at

\* C14: a worker runs, for the envelope it holds, the dequeue, then the
\* IN_PROGRESS update, then the terminal update: the IN_PROGRESS update
\* is the statement after the dequeue, a terminal update is made by a
\* worker that is past its IN_PROGRESS update for that envelope, and a
\* worker dequeues only when it holds no envelope.
C14_WorkerOrder ==
    [][/\ \A id \in JobIds :
             WritesStarted(id) =>
                 \E w \in Workers : /\ Holds(w, id)
                                    /\ wpc[w] = "mark"
                                    /\ wpc'[w] = "dispatch"
       /\ \A id \in JobIds :
             WritesCompleted(id) =>
                 \E w \in Workers : /\ Holds(w, id)
                                    /\ wpc[w] \in {"dispatch", "complete"}
                                    /\ wpc'[w] = "brpop"
       /\ \A w \in Workers :
             /\ wpc[w] = "mark" => wpc'[w] \in {"mark", "dispatch", "except_db"}
             /\ wpc'[w] = "dispatch" => wpc[w] \in {"mark", "dispatch"}
             /\ wpc'[w] = "complete" => wpc[w] \in {"dispatch", "complete"}
             /\ (job_data'[w] # job_data[w] /\ job_data'[w] # NULL)
                    => /\ wpc[w] = "brpop" /\ job_data[w] = NULL
                       /\ wpc'[w] = "mark"
                       /\ dequeued' = Append(dequeued, job_data'[w][1].task_id)
             /\ wpc[w] \in {"mark", "dispatch", "complete"}
                    => (job_data'[w] = job_data[w] \/ wpc'[w] = "brpop")
      ]_vars

\* both jobs went through dequeue, IN_PROGRESS update and terminal update
C14_Witness ==
    /\ Len(dequeued) = 2
    /\ \A w \in Workers : wpc[w] = "brpop"
    /\ \A id \in JobIds :
          /\ id \in DOMAIN store
          /\ store[id].status \in Terminal
          /\ store[id].started_at # NULL
          /\ store[id].completed_at # NULL

\* worker w is in its psycopg2.Error handler with the envelope of id
StoreLost(w, id) == wpc[w] = "except_db" /\ Holds(w, id)

C16_RedeliveryOverwrites ==
    [][\A w \in Workers, id \in DOMAIN store :
          /\ (Holds(w, id) /\ wpc[w] = "mark" /\ wpc'[w] = "dispatch")
                => /\ store'[id].status = "IN_PROGRESS"
                   /\ store'[id].started_at = NOW(store[id].started_at)
                   /\ store'[id].started_at # store[id].started_at
          /\ (Holds(w, id) /\ wpc[w] \in {"dispatch", "complete"} /\ wpc'[w] = "brpop")
                => /\ store'[id].status \in Terminal
                   /\ store'[id].completed_at = NOW(store[id].completed_at)
                   /\ store'[id].completed_at # store[id].completed_at
      ]_vars

\* the second delivery set a record that was terminal back to IN_PROGRESS
C16_Witness ==
    \E id \in DOMAIN store :
        /\ store[id].status = "IN_PROGRESS"
        /\ store[id].started_at = Some(2)
        /\ store[id].completed_at # NULL

\* C17: no error of the loop body ends the worker: from the handler of a
\* store error, of a queue error, or of any other exception (a raising
\* task function, a malformed envelope), and from every other position,
\* the worker gets back to the blocking dequeue.
C17_WorkerSurvivesErrors ==
    \A w \in Workers : (wpc[w] # "brpop") ~> (wpc[w] = "brpop")

\* one worker is in "except Exception" after a malformed envelope, another
\* in "except psycopg2.Error"
C17_Witness ==
    \E w1, w2 \in Workers :
        /\ wpc[w1] = "except_other" /\ job_data[w1] = NULL
        /\ wpc[w2] = "except_db"

\* the task_ids on the queue, the one brpop returns next first
QueueIds == [k \in 1..Len(queue) |-> json_loads(queue[Len(queue) + 1 - k]).task_id]

\* the task_ids in the order the workers got or will get them
DeliveryOrder == dequeued \o QueueIds

IsPrefix(s, t) == Len(s) <= Len(t) /\ SubSeq(t, 1, Len(s)) = s

Before(i, j, s) == \E a, b \in DOMAIN s : a < b /\ s[a] = i /\ s[b] = j

\* C18: the queue is first in, first out: an lpush puts its envelope
\* behind every envelope already waiting and brpop takes the one waiting
\* longest, so the delivery order only grows at its end, by the envelope
\* just enqueued; and with one worker a job enters IN_PROGRESS only while
\* no job enqueued after it has entered IN_PROGRESS.
C18_FifoOrder ==
    [][/\ IsPrefix(DeliveryOrder, DeliveryOrder')
       /\ \A j \in JobIds :
             (j \in pushed' \ pushed) => DeliveryOrder' = Append(DeliveryOrder, j)
       /\ \A id \in JobIds :
             WritesStarted(id) =>
                 \A j \in DOMAIN store :
                     Before(id, j, DeliveryOrder') => store'[j].started_at = NULL
      ]_vars

\* the job enqueued first is IN_PROGRESS while the job enqueued second, of
\* a request that began earlier, waits on the queue
C18_Witness ==
    /\ dequeued = <<2>>
    /\ QueueIds = <<1>>
    /\ DOMAIN store = {1, 2}
    /\ store[2].status = "IN_PROGRESS"
    /\ store[1].status = "PENDING"

\* worker w executes one of its UPDATE statements in this step
RunsUpdate(w) ==
    \/ wpc[w] = "mark" /\ wpc'[w] = "dispatch"
    \/ wpc[w] \in {"dispatch", "complete"} /\ wpc'[w] = "brpop"

\* C19: whenever a worker runs the IN_PROGRESS or the terminal update for
\* an envelope, the committed record of that id is visible in the store;
\* no envelope is dequeued before the insert of its record is committed.
C19_RecordVisibleAtUpdate ==
    /\ [][\A w \in Workers :
             RunsUpdate(w) => Envelope(w).task_id \in DOMAIN store]_vars
    /\ [](\A k \in DOMAIN dequeued : dequeued[k] \in DOMAIN store)

InProgress == {id \in DOMAIN store : store[id].status = "IN_PROGRESS"}

\* C20: with W workers, each envelope delivered once, and no store, queue
\* or handler failure, at most W records are IN_PROGRESS at any time: each
\* IN_PROGRESS record is the one job a running worker is executing.
C20_InProgressBound ==
    /\ Cardinality(InProgress) <= Cardinality(ActiveWorkers)
    /\ \A id \in InProgress :
          \E w \in ActiveWorkers :
              Holds(w, id) /\ wpc[w] \in {"dispatch", "complete"}

\* the only worker is executing its second job, the first one is finished
C20_Witness ==
    /\ Len(dequeued) = 2
    /\ Cardinality(InProgress) = Cardinality(ActiveWorkers)
    /\ \E id \in DOMAIN store : store[id].status \in Terminal
====
